---- MODULE Spec2Model ----
(***************************************************************************)
(* A model of esptool.py: the ESP8266 ROM bootloader client (class ESPROM: *)
(* SLIP framing, command/response exchange, connect with retry, the flash  *)
(* and RAM programming sequences) and the firmware image builder (class    *)
(* Image).                                                                 *)
(*                                                                         *)
(* Bytes are the integers 0..255, byte strings are sequences of bytes.     *)
(* Durations are in milliseconds.  A Python exception is a value of the    *)
(* field err of the result record: "none" means a normal return.           *)
(***************************************************************************)
EXTENDS Integers, Sequences, FiniteSets, TLC

VARIABLES
    pc,               \* position of the (single) thread of control
    call,             \* the operation being run and its arguments
    loc,              \* the local variables of the running operation
    ret,              \* how the operation ended: [err, val, body] / image result
    timeout,          \* self._port.timeout, in ms
    rx,               \* bytes the transport holds for the host to read
    wire,             \* every frame written to the port, oldest first
    log,              \* the port and clock events, oldest first (for an
                      \* Image: the sections of its add_section calls)
    heard,            \* what the device delivered for the latest read
    quiet,            \* the device has delivered nothing since the call
    loaded_sections,  \* Image.loaded_sections
    static_sections,  \* Image.static_sections
    entrypoint,       \* Image.entrypoint
    flash_base        \* Image.flash_base

portVars == <<timeout, rx, wire, log, heard, quiet>>
imageVars == <<loaded_sections, static_sections, entrypoint, flash_base>>
vars == <<pc, call, loc, ret, timeout, rx, wire, log, heard, quiet,
          loaded_sections, static_sections, entrypoint, flash_base>>

(***************************************************************************)
(* Bounds of the model.                                                    *)
(***************************************************************************)
MaxFrameLen == 3

(***************************************************************************)
(* Program constants.                                                      *)
(***************************************************************************)
ESP_FLASH_BEGIN == 2
ESP_FLASH_DATA == 3
ESP_FLASH_END == 4
ESP_MEM_BEGIN == 5
ESP_MEM_END == 6
ESP_MEM_DATA == 7
ESP_SYNC == 8
ESP_RAM_BLOCK == 6144
ESP_FLASH_BLOCK == 1024
ESP_CHECKSUM_MAGIC == 239
ESP_IMAGE_MAGIC == 233
ESP_FLASH_BASE == 1075838976

SLIP_END == 192
SLIP_ESC == 219
SLIP_ESC_END == 220
SLIP_ESC_ESC == 221

\* op=None: command() called without an opcode (a bare read of a response).
None == -1

(***************************************************************************)
(* Python helpers.                                                         *)
(***************************************************************************)
\* bytes.replace(old, new) for a one-byte pattern old: every occurrence, left
\* to right.  Halving keeps the evaluation depth logarithmic in len(s).
RECURSIVE Replace(_, _, _)
Replace(s, old, new) ==
    IF Len(s) = 0 THEN <<>>
    ELSE IF Len(s) = 1 THEN (IF s[1] = old THEN new ELSE s)
    ELSE LET h == Len(s) \div 2
         IN  Replace(SubSeq(s, 1, h), old, new)
                 \o Replace(SubSeq(s, h + 1, Len(s)), old, new)

\* operator.xor on two non-negative integers.
RECURSIVE Xor(_, _)
Xor(a, b) ==
    IF a = 0 THEN b
    ELSE IF b = 0 THEN a
    ELSE ((a + b) % 2) + 2 * Xor(a \div 2, b \div 2)

\* functools.reduce(operator.xor, data) of a non-empty data (XOR is
\* associative, so the fold is evaluated by halves).
RECURSIVE XorReduce(_)
XorReduce(data) ==
    IF Len(data) = 1 THEN data[1]
    ELSE LET h == Len(data) \div 2
         IN  Xor(XorReduce(SubSeq(data, 1, h)),
                 XorReduce(SubSeq(data, h + 1, Len(data))))

\* struct.pack: little-endian unsigned fields.
PackB(n) == <<n % 256>>
PackH(n) == <<n % 256, (n \div 256) % 256>>
PackI(n) == <<n % 256, (n \div 256) % 256, (n \div 65536) % 256,
              (n \div 16777216) % 256>>
\* struct.unpack of the same fields.
UnpackH(b) == b[1] + 256 * b[2]
UnpackI(b) == b[1] + 256 * b[2] + 65536 * b[3] + 16777216 * b[4]

(***************************************************************************)
(* ESPROM.write: SLIP escaping and framing.                                *)
(***************************************************************************)
\* The mutant: the two replacements in the opposite order.
SlipWriteSwapped(packet) ==
    <<SLIP_END>>
        \o Replace(Replace(packet, SLIP_END, <<SLIP_ESC, SLIP_ESC_END>>),
                   SLIP_ESC, <<SLIP_ESC, SLIP_ESC_ESC>>)
        \o <<SLIP_END>>

\* b'\xc0'+packet.replace(b'\xdb', b'\xdb\xdd').replace(b'\xc0', b'\xdb\xdc')+b'\xc0'
SlipWrite(packet) ==
    <<SLIP_END>>
        \o Replace(Replace(packet, SLIP_ESC, <<SLIP_ESC, SLIP_ESC_ESC>>),
                   SLIP_END, <<SLIP_ESC, SLIP_ESC_END>>)
        \o <<SLIP_END>>

(***************************************************************************)
(* ESPROM.read: length-driven SLIP unescaping from the port's input.       *)
(* self._port.read(1)[0] on an empty input is the read timing out: pyserial*)
(* returns b'' and the index raises.                                       *)
(***************************************************************************)
\* slip_read(): one unescaped byte c, or the exception, and the input left.
slip_read(buf) ==
    IF buf = <<>> THEN [err |-> "timeout", c |-> 0, rest |-> <<>>]
    ELSE IF buf[1] = SLIP_ESC THEN
        IF Len(buf) < 2 THEN [err |-> "timeout", c |-> 0, rest |-> <<>>]
        ELSE IF buf[2] = SLIP_ESC_END
            THEN [err |-> "none", c |-> SLIP_END, rest |-> SubSeq(buf, 3, Len(buf))]
        ELSE IF buf[2] = SLIP_ESC_ESC
            THEN [err |-> "none", c |-> SLIP_ESC, rest |-> SubSeq(buf, 3, Len(buf))]
        ELSE [err |-> "escape", c |-> 0, rest |-> SubSeq(buf, 3, Len(buf))]
    ELSE [err |-> "none", c |-> buf[1], rest |-> Tail(buf)]

\* bytes([slip_read() for _ in range(length)])
RECURSIVE Read(_, _)
Read(buf, length) ==
    IF length = 0 THEN [err |-> "none", data |-> <<>>, rest |-> buf]
    ELSE LET r == slip_read(buf)
         IN  IF r.err # "none"
             THEN [err |-> r.err, data |-> <<>>, rest |-> r.rest]
             ELSE LET t == Read(r.rest, length - 1)
                  IN  [err |-> t.err,
                       data |-> IF t.err = "none" THEN <<r.c>> \o t.data ELSE <<>>,
                       rest |-> t.rest]

(***************************************************************************)
(* ESPROM.checksum                                                         *)
(***************************************************************************)
\* state ^ functools.reduce(operator.xor, data); reduce() of an empty data
\* with no initial value raises TypeError, checked by ChecksumRaises.
ChecksumRaises(data) == Len(data) = 0
checksum(data, state) == Xor(state, XorReduce(data))

(***************************************************************************)
(* ESPROM.command: the request packet and the parse of the response.       *)
(***************************************************************************)
\* struct.pack(b'<BBHI', 0x00, op, len(data), chk) + data
Request(op, data, chk) ==
    PackB(0) \o PackB(op) \o PackH(Len(data)) \o PackI(chk) \o data

\* Python's truth value of op in `op and op_ret != op`: None and 0 are false.
Truthy(op) == op # None /\ op # 0

\* The mutant: a rejected response is read to the end of its frame.
RECURSIVE RestDrained(_)
RestDrained(rest) ==
    IF rest = <<>> THEN <<>>
    ELSE IF rest[1] = SLIP_END THEN Tail(rest)
    ELSE RestDrained(Tail(rest))

\* raise Exception('Invalid response') reads nothing more: the input is left
\* as it is after the header.
RestAfterReject(rest) == rest

\* Lines 109-126 of command(): what reading one response from the input buf
\* gives: the exception or (val, body), and the input left unread.
CommandRead(op, buf) ==
    LET fail(e, rest) == [err |-> e, val |-> 0, body |-> <<>>, rest |-> rest]
    IN
    IF buf = <<>> THEN fail("timeout", <<>>)
    ELSE IF buf[1] # SLIP_END THEN fail("head", Tail(buf))
    ELSE
      LET hdr == Read(Tail(buf), 8) IN
      IF hdr.err # "none" THEN fail(hdr.err, hdr.rest)
      ELSE
        LET resp == hdr.data[1]
            op_ret == hdr.data[2]
            len_ret == UnpackH(SubSeq(hdr.data, 3, 4))
            val == UnpackI(SubSeq(hdr.data, 5, 8))
        IN
        IF resp # 1 \/ (Truthy(op) /\ op_ret # op) THEN fail("response", RestAfterReject(hdr.rest))
        ELSE
          LET body == Read(hdr.rest, len_ret) IN
          IF body.err # "none" THEN fail(body.err, body.rest)
          ELSE IF body.rest = <<>> THEN fail("timeout", <<>>)
          ELSE IF body.rest[1] # SLIP_END THEN fail("tail", Tail(body.rest))
          ELSE [err |-> "none", val |-> val, body |-> body.data,
                rest |-> Tail(body.rest)]

\* simple_command(): command() whose body must be two zero bytes.
SimpleCommandRead(op, buf) ==
    LET r == CommandRead(op, buf)
    IN  IF r.err = "none" /\ r.body # <<0, 0>>
        THEN [r EXCEPT !.err = "body", !.val = 0, !.body = <<>>]
        ELSE r

\* chunks(iterable, n): iterable[ndx:min(ndx+n, l)] for ndx in range(0, l, n)
Min(a, b) == IF a < b THEN a ELSE b
chunks(iterable, n) ==
    LET l == Len(iterable)
    IN  [j \in 1..((l + n - 1) \div n) |->
            SubSeq(iterable, (j - 1) * n + 1, Min((j - 1) * n + n, l))]

(***************************************************************************)
(* Framing round trip: write(b) on a port looped back to the reader.       *)
(***************************************************************************)
FrameBytes == {0, SLIP_END, SLIP_ESC, SLIP_ESC_END, SLIP_ESC_ESC}

RECURSIVE SeqsUpTo(_, _)
SeqsUpTo(S, n) ==
    IF n = 0 THEN {<<>>}
    ELSE LET shorter == SeqsUpTo(S, n - 1)
         IN  shorter \cup {Append(s, x) : s \in {t \in shorter : Len(t) = n - 1}, x \in S}

NoRet == [err |-> "none", val |-> 0, body |-> <<>>]

InitFraming ==
    /\ pc = "fr_write"
    /\ call \in {[name |-> "write", packet |-> b] : b \in SeqsUpTo(FrameBytes, MaxFrameLen)}
    /\ loc = [k |-> 0]
    /\ ret = NoRet
    /\ timeout = 0
    /\ rx = <<>>
    /\ wire = <<>>
    /\ log = <<>>
    /\ heard = <<>>
    /\ quiet = TRUE
    /\ loaded_sections = <<>>
    /\ static_sections = <<>>
    /\ entrypoint = 0
    /\ flash_base = ESP_FLASH_BASE

\* self.write(packet); the transport echoes what follows the leading delimiter.
FrWrite ==
    /\ pc = "fr_write"
    /\ wire' = Append(wire, SlipWrite(call.packet))
    /\ log' = Append(log, "write")
    /\ rx' = Tail(SlipWrite(call.packet))
    /\ pc' = "fr_read"
    /\ UNCHANGED <<call, loc, ret, timeout, heard, quiet, imageVars>>

\* self.read(len(packet))
FrRead ==
    /\ pc = "fr_read"
    /\ LET r == Read(rx, Len(call.packet))
       IN  /\ ret' = [err |-> r.err, val |-> 0, body |-> r.data]
           /\ rx' = r.rest
    /\ pc' = "done"
    /\ UNCHANGED <<call, loc, timeout, wire, log, heard, quiet, imageVars>>

NextFraming == FrWrite \/ FrRead

SpecFraming == InitFraming /\ [][NextFraming]_vars

\* C8: the frame written for b starts and ends with 0xC0, and reading len(b)
\* unescaped bytes from what lies between yields b, leaving only the trailing
\* 0xC0 unread.
C8_FramingRoundTrip ==
    pc = "done" =>
        /\ Len(wire) = 1
        /\ Len(wire[1]) >= 2
        /\ wire[1][1] = SLIP_END
        /\ wire[1][Len(wire[1])] = SLIP_END
        /\ ret.err = "none"
        /\ ret.body = call.packet
        /\ rx = <<SLIP_END>>

\* A packet holding 0xDB 0xDC and 0xC0 went round.
C8_Witness ==
    /\ pc = "done"
    /\ call.packet = <<SLIP_ESC, SLIP_ESC_END, SLIP_END>>
    /\ ret.body = call.packet

(***************************************************************************)
(* The ROM bootloader client driven over a serial port.                    *)
(*                                                                         *)
(* An operation is called (Call), runs through its positions and ends at   *)
(* "done" with ret.  A command() is three steps: the request is written    *)
(* (a ..._wait position), the device delivers bytes or nothing (Device),   *)
(* the response is read and parsed (a ..._read position).                  *)
(***************************************************************************)
MaxBlocks == 2
MaxOps == 3

CONNECT_TIMEOUT == 500
STEADY_TIMEOUT == 5000
FLASH_BEGIN_TIMEOUT == 10000
ConnectAttempts == 10
SyncReads == 7
ESP_READ_REG == 10

\* The payload of the sync probe: b'\x07\x07\x12\x20'+32*b'\x55'
SyncPayload == <<7, 7, 18, 32>> \o [i \in 1..32 |-> 85]

\* --- the inputs -----------------------------------------------------------
\* The port's timeout before a call: None (Serial's default, a read blocks),
\* or a number of milliseconds.
Timeouts == {None, 1000, STEADY_TIMEOUT, FLASH_BEGIN_TIMEOUT}

BlobPattern == <<0, SLIP_END, 1, SLIP_ESC, 255, SLIP_ESC_END, 7>>
Blob(n, k) == [i \in 1..n |-> BlobPattern[((i + k) % Len(BlobPattern)) + 1]]
BlobLens == {0, 1} \cup {k * ESP_FLASH_BLOCK + d : k \in 1..MaxBlocks, d \in {-1, 0, 1}}
Blobs == {Blob(n, 0) : n \in BlobLens}
Offsets == {0, 4096}

RamSections == {<<>>,
                <<<<1074790400, <<1>>>>>>,
                <<<<1074790400, <<1, 2, 3>>>>, <<1073643520, <<>>>>>>}
Entrypoints == {0, 1074790408}

Calls ==
    {[name |-> "connect"]}
    \cup {[name |-> "command", op |-> o, data |-> PackI(1610612736), chk |-> 0] :
             o \in {None, 0, ESP_READ_REG}}
    \cup {[name |-> "flash_begin", size |-> s, offset |-> o] :
             s \in {0, ESP_FLASH_BLOCK}, o \in Offsets}
    \cup {[name |-> "flash_image", offx |-> 4096, img |-> b] : b \in Blobs}
    \cup {[name |-> "mem_begin", size |-> 3, blocks |-> 1, blocksize |-> bs,
           offset |-> 1074790400] : bs \in {ESP_FLASH_BLOCK, ESP_RAM_BLOCK}}
    \cup {[name |-> "write_memory_image", sections |-> ss, entrypoint |-> e] :
             ss \in RamSections, e \in Entrypoints}
    \cup {[name |-> "flash_finish", reboot |-> r] : r \in BOOLEAN}
    \cup {[name |-> "run", reboot |-> r] : r \in BOOLEAN}

\* --- the device -----------------------------------------------------------
\* A response frame as the ROM sends it: the header that command() unpacks
\* with '<BBHI' (status, opcode echo, body length, value), the body, SLIP
\* framed.
DeviceFrame(status, echo, val, body) ==
    SlipWrite(PackB(status) \o PackB(echo) \o PackH(Len(body)) \o PackI(val) \o body)

\* What the device may deliver while the host reads the response to op:
\* nothing, a well-formed response (accepted or not), or a malformed one; a
\* register read may be answered by two responses back to back.
Deliveries(op) ==
    LET e == IF op = None THEN ESP_SYNC ELSE op
        good == DeviceFrame(1, e, 0, <<0, 0>>)
    IN  { <<>>,
          good,
          DeviceFrame(1, e, SLIP_END, <<0, 0>>),
          DeviceFrame(1, e, 0, <<1, 6>>),
          DeviceFrame(1, e, 7, <<>>),
          DeviceFrame(0, e, 0, <<0, 0>>),
          DeviceFrame(1, e + 1, 5, <<0, 0>>),
          <<0>> \o good,
          <<SLIP_END, SLIP_ESC, 0>>,
          SubSeq(good, 1, 5),
          SubSeq(good, 1, Len(good) - 1),
          SubSeq(good, 1, Len(good) - 1) \o <<0>> }
        \cup (IF op = ESP_READ_REG
              THEN {good \o DeviceFrame(1, e, 9, <<0, 0>>)}
              ELSE {})

\* --- bookkeeping ----------------------------------------------------------
Ok(val, body) == [err |-> "none", val |-> val, body |-> body]
Failed(e) == [err |-> e, val |-> 0, body |-> <<>>]

\* self._port.write of one SLIP frame.
PortWrite(packet) ==
    /\ wire' = Append(wire, SlipWrite(packet))
    /\ log' = Append(log, "write")

\* A read on an empty input returns after the timeout; with timeout None it
\* never returns.
Returns(r) == ~(r.err = "timeout" /\ timeout = None)

Init ==
    /\ pc = "idle"
    /\ call = [name |-> "none"]
    /\ loc = [op |-> None]
    /\ ret = NoRet
    /\ timeout \in Timeouts
    /\ rx = <<>>
    /\ wire = <<>>
    /\ log = <<>>
    /\ heard = <<>>
    /\ quiet = TRUE
    /\ loaded_sections = <<>>
    /\ static_sections = <<>>
    /\ entrypoint = 0
    /\ flash_base = ESP_FLASH_BASE

\* The caller invokes one operation of ESPROM; tmo remembers the timeout it
\* found.
Call ==
    /\ pc = "idle"
    /\ \E c \in Calls :
        /\ call' = [name |-> c.name, args |-> c, tmo |-> timeout]
        /\ pc' = c.name
    /\ UNCHANGED <<loc, ret, portVars, imageVars>>

WaitPcs == {"sync_wait", "drain_wait", "cmd_wait", "fb_wait", "fblk_wait",
            "mb_wait", "mf_wait", "ff_wait"}
ReadPc(p) ==
    CASE p = "sync_wait" -> "sync_read"
      [] p = "drain_wait" -> "drain_read"
      [] p = "cmd_wait" -> "cmd_read"
      [] p = "fb_wait" -> "fb_read"
      [] p = "fblk_wait" -> "fblk_read"
      [] p = "mb_wait" -> "mb_read"
      [] p = "mf_wait" -> "mf_read"
      [] p = "ff_wait" -> "ff_read"

\* The device's side of a command: the bytes that reach the host before its
\* read returns.
Device ==
    /\ pc \in WaitPcs
    /\ \E d \in Deliveries(loc.op) :
        /\ rx' = rx \o d
        /\ heard' = d
        /\ quiet' = (quiet /\ d = <<>>)
    /\ pc' = ReadPc(pc)
    /\ UNCHANGED <<call, loc, ret, timeout, wire, log, imageVars>>

(***************************************************************************)
(* ESPROM.command called on its own.                                       *)
(***************************************************************************)
CommandSend ==
    /\ pc = "command"
    /\ IF call.args.op # None
       THEN PortWrite(Request(call.args.op, call.args.data, call.args.chk))
       ELSE UNCHANGED <<wire, log>>
    /\ loc' = [op |-> call.args.op]
    /\ pc' = "cmd_wait"
    /\ UNCHANGED <<call, ret, timeout, rx, heard, quiet, imageVars>>

CommandRecv ==
    /\ pc = "cmd_read"
    /\ LET r == CommandRead(call.args.op, rx)
       IN  /\ Returns(r)
           /\ rx' = r.rest
           /\ ret' = [err |-> r.err, val |-> r.val, body |-> r.body]
    /\ pc' = "done"
    /\ UNCHANGED <<call, loc, timeout, wire, log, heard, quiet, imageVars>>

(***************************************************************************)
(* ESPROM.connect and ESPROM.sync                                          *)
(***************************************************************************)
\* self._port.timeout = 0.5, and the for loop is entered
ConnectBegin ==
    /\ pc = "connect"
    /\ timeout' = CONNECT_TIMEOUT
    /\ loc' = [op |-> None, _i |-> 0, n |-> 0]
    /\ pc' = "attempt"
    /\ UNCHANGED <<call, ret, rx, wire, log, heard, quiet, imageVars>>

\* One pass of the loop body up to the write of the sync probe: flushInput(),
\* flushOutput(), and sync()'s command(ESP_SYNC, ...) sends its request.
ConnectAttempt ==
    /\ pc = "attempt"
    /\ rx' = <<>>
    /\ wire' = Append(wire, SlipWrite(Request(ESP_SYNC, SyncPayload, 0)))
    /\ log' = log \o <<"flushInput", "flushOutput", "write">>
    /\ loc' = [loc EXCEPT !.op = ESP_SYNC, !.n = 0]
    /\ pc' = "sync_wait"
    /\ UNCHANGED <<call, ret, timeout, heard, quiet, imageVars>>

\* The mutant: one pass more.
AttemptsOneMore == ConnectAttempts + 1

\* for _i in range(10)
Attempts == ConnectAttempts

\* The mutant: one bare read fewer.
DrainsOneLess == SyncReads - 1

\* for i in range(7)
Drains == SyncReads

\* except: time.sleep(0.1), then the next pass, or after the last one
\* raise Exception('Failed to connect').
AttemptFailed ==
    /\ log' = Append(log, "sleep")
    /\ loc' = [loc EXCEPT !._i = loc._i + 1]
    /\ IF loc._i + 1 < Attempts
       THEN pc' = "attempt" /\ ret' = ret
       ELSE pc' = "done" /\ ret' = Failed("connect")
    /\ UNCHANGED timeout

\* sync(): the response to the sync probe is read.
SyncRecv ==
    /\ pc = "sync_read"
    /\ LET r == CommandRead(ESP_SYNC, rx)
       IN  /\ Returns(r)
           /\ rx' = r.rest
           /\ IF r.err = "none"
              THEN /\ loc' = [loc EXCEPT !.op = None, !.n = 1]
                   /\ pc' = "drain_wait"
                   /\ UNCHANGED <<ret, timeout, log>>
              ELSE AttemptFailed
    /\ UNCHANGED <<call, wire, heard, quiet, imageVars>>

\* sync(): for i in range(7): self.command(); after the last one connect()
\* sets the timeout to 5 and returns.
DrainRecv ==
    /\ pc = "drain_read"
    /\ LET r == CommandRead(None, rx)
       IN  /\ Returns(r)
           /\ rx' = r.rest
           /\ IF r.err # "none" THEN AttemptFailed
              ELSE IF loc.n + 1 < 1 + Drains
              THEN /\ loc' = [loc EXCEPT !.n = loc.n + 1]
                   /\ pc' = "drain_wait"
                   /\ UNCHANGED <<ret, timeout, log>>
              ELSE /\ loc' = [loc EXCEPT !.n = loc.n + 1]
                   /\ timeout' = STEADY_TIMEOUT
                   /\ pc' = "done"
                   /\ ret' = Ok(0, <<>>)
                   /\ UNCHANGED log
    /\ UNCHANGED <<call, wire, heard, quiet, imageVars>>

(***************************************************************************)
(* ESPROM.flash_begin, ESPROM.flash_block and ESPROM.flash_image           *)
(***************************************************************************)
\* The mutant: the timeout is put back only when the command succeeded.
RestoredOnSuccessOnly(old_tmo, err) ==
    IF err = "none" THEN old_tmo ELSE FLASH_BEGIN_TIMEOUT

\* finally: self._port.timeout = old_tmo
TimeoutAfterFlashBegin(old_tmo, err) == old_tmo

\* The mutant: a caller-chosen block size (here the RAM block) is declared.
FlashBeginPayloadRamBlock(size, offset) ==
    PackI(size) \o PackI(512) \o PackI(ESP_RAM_BLOCK) \o PackI(offset)

\* struct.pack(b'<IIII', size, 0x200, 0x400, offset)
FlashBeginPayload(size, offset) ==
    PackI(size) \o PackI(512) \o PackI(1024) \o PackI(offset)

\* The mutant: sequence numbers that start at 1.
BlockPayloadFromOne(data, seq) ==
    PackI(Len(data)) \o PackI(seq + 1) \o PackI(0) \o PackI(0) \o data

\* struct.pack(b'<IIII', len(data), seq, 0, 0)+data
BlockPayload(data, seq) ==
    PackI(Len(data)) \o PackI(seq) \o PackI(0) \o PackI(0) \o data

\* The arguments flash_begin is called with: its own, those flash_image
\* passes: self.flash_begin(len(img), offx), or those of run:
\* self.flash_begin(0, 0)
FlashBeginArgs ==
    IF call.name = "flash_image"
    THEN [size |-> Len(call.args.img), offset |-> call.args.offx]
    ELSE IF call.name = "run"
    THEN [size |-> 0, offset |-> 0]
    ELSE [size |-> call.args.size, offset |-> call.args.offset]

\* run() starts with flash_begin()
RunBegin ==
    /\ pc = "run"
    /\ pc' = "flash_begin"
    /\ UNCHANGED <<call, loc, ret, portVars, imageVars>>

\* flash_image() starts with flash_begin()
FlashImageBegin ==
    /\ pc = "flash_image"
    /\ pc' = "flash_begin"
    /\ UNCHANGED <<call, loc, ret, portVars, imageVars>>

\* flash_begin() up to the write of its request: the timeout is raised.
FlashBeginSend ==
    /\ pc = "flash_begin"
    /\ loc' = [op |-> ESP_FLASH_BEGIN, old_tmo |-> timeout, seq |-> 0]
    /\ timeout' = FLASH_BEGIN_TIMEOUT
    /\ PortWrite(Request(ESP_FLASH_BEGIN,
                         FlashBeginPayload(FlashBeginArgs.size, FlashBeginArgs.offset), 0))
    /\ pc' = "fb_wait"
    /\ UNCHANGED <<call, ret, rx, heard, quiet, imageVars>>

\* flash_begin() reads the response and leaves through finally; flash_image()
\* goes on to its first chunk, if there is one, and run() to flash_finish().
FlashBeginRecv ==
    /\ pc = "fb_read"
    /\ LET r == SimpleCommandRead(ESP_FLASH_BEGIN, rx)
       IN  /\ rx' = r.rest
           /\ timeout' = TimeoutAfterFlashBegin(loc.old_tmo, r.err)
           /\ IF r.err # "none"
              THEN pc' = "done" /\ ret' = Failed(r.err)
              ELSE IF call.name = "flash_image"
                      /\ Len(chunks(call.args.img, ESP_FLASH_BLOCK)) > 0
              THEN pc' = "flash_block" /\ ret' = ret
              ELSE IF call.name = "run"
              THEN pc' = "flash_finish" /\ ret' = ret
              ELSE pc' = "done" /\ ret' = Ok(r.val, <<>>)
    /\ UNCHANGED <<call, loc, wire, log, heard, quiet, imageVars>>

\* flash_image(): self.flash_block(chunk, seq) writes its request.  The chunk
\* size is read as esp.ESP_FLASH_BLOCK, through the module's global esp, which
\* the script binds to the ESPROM object (line 335) before it calls
\* flash_image.
FlashBlockSend ==
    /\ pc = "flash_block"
    /\ LET chunk == chunks(call.args.img, ESP_FLASH_BLOCK)[loc.seq + 1]
       IN  IF ChecksumRaises(chunk)
           THEN /\ pc' = "done" /\ ret' = Failed("TypeError")
                /\ UNCHANGED <<loc, wire, log>>
           ELSE /\ PortWrite(Request(ESP_FLASH_DATA, BlockPayload(chunk, loc.seq),
                                     checksum(chunk, ESP_CHECKSUM_MAGIC)))
                /\ loc' = [loc EXCEPT !.op = ESP_FLASH_DATA]
                /\ pc' = "fblk_wait" /\ ret' = ret
    /\ UNCHANGED <<call, timeout, rx, heard, quiet, imageVars>>

\* The mutant: a block that failed is sent again.
BlockRetried == "flash_block"

\* Where flash_image() goes when flash_block() raises: nothing in it catches
\* the exception.
AfterBlockError == "done"

\* flash_block() reads the response; the for loop takes the next chunk or ends.
FlashBlockRecv ==
    /\ pc = "fblk_read"
    /\ LET r == SimpleCommandRead(ESP_FLASH_DATA, rx)
       IN  /\ Returns(r)
           /\ rx' = r.rest
           /\ IF r.err # "none"
              THEN pc' = AfterBlockError /\ ret' = Failed(r.err) /\ loc' = loc
              ELSE /\ loc' = [loc EXCEPT !.seq = loc.seq + 1]
                   /\ IF loc.seq + 1 < Len(chunks(call.args.img, ESP_FLASH_BLOCK))
                      THEN pc' = "flash_block" /\ ret' = ret
                      ELSE pc' = "done" /\ ret' = Ok(0, <<>>)
    /\ UNCHANGED <<call, timeout, wire, log, heard, quiet, imageVars>>

(***************************************************************************)
(* ESPROM.flash_finish, alone or as the second half of ESPROM.run          *)
(***************************************************************************)
\* struct.pack(b'<I', int(not reboot))
FlashFinishPayload(reboot) == PackI(IF reboot THEN 0 ELSE 1)

\* The mutant: only two zero bytes are taken.
FlashFinishBodiesZeroOnly == {<<0, 0>>}

\* if body not in (b'\0\0', b'\x01\x06'): raise
FlashFinishBodies == {<<0, 0>>, <<1, 6>>}

FlashFinishSend ==
    /\ pc = "flash_finish"
    /\ PortWrite(Request(ESP_FLASH_END, FlashFinishPayload(call.args.reboot), 0))
    /\ loc' = [op |-> ESP_FLASH_END]
    /\ pc' = "ff_wait"
    /\ UNCHANGED <<call, ret, timeout, rx, heard, quiet, imageVars>>

\* command() without simple_command's test of the body, then flash_finish's
\* own; the method returns None.
FlashFinishRecv ==
    /\ pc = "ff_read"
    /\ LET r == CommandRead(ESP_FLASH_END, rx)
       IN  /\ Returns(r)
           /\ rx' = r.rest
           /\ ret' = IF r.err # "none" THEN Failed(r.err)
                     ELSE IF r.body \notin FlashFinishBodies THEN Failed("body")
                     ELSE Ok(0, <<>>)
    /\ pc' = "done"
    /\ UNCHANGED <<call, loc, timeout, wire, log, heard, quiet, imageVars>>

(***************************************************************************)
(* ESPROM.mem_begin, ESPROM.mem_finish and ESPROM.write_memory_image       *)
(***************************************************************************)
\* struct.pack(b'<IIII', size, blocks, blocksize, offset)
MemBeginPayload(size, blocks, blocksize, offset) ==
    PackI(size) \o PackI(blocks) \o PackI(blocksize) \o PackI(offset)

\* struct.pack(b'<II', int(entrypoint == 0), entrypoint)
MemFinishPayload(e) == PackI(IF e = 0 THEN 1 ELSE 0) \o PackI(e)

MemBeginSend ==
    /\ pc = "mem_begin"
    /\ PortWrite(Request(ESP_MEM_BEGIN,
                         MemBeginPayload(call.args.size, call.args.blocks,
                                         call.args.blocksize, call.args.offset), 0))
    /\ loc' = [op |-> ESP_MEM_BEGIN]
    /\ pc' = "mb_wait"
    /\ UNCHANGED <<call, ret, timeout, rx, heard, quiet, imageVars>>

MemBeginRecv ==
    /\ pc = "mb_read"
    /\ LET r == SimpleCommandRead(ESP_MEM_BEGIN, rx)
       IN  /\ Returns(r)
           /\ rx' = r.rest
           /\ ret' = IF r.err = "none" THEN Ok(r.val, <<>>) ELSE Failed(r.err)
    /\ pc' = "done"
    /\ UNCHANGED <<call, loc, timeout, wire, log, heard, quiet, imageVars>>

\* write_memory_image(): the for loop over the sections.  Its first
\* statement that sends anything is
\*     self.mem_begin(size, math.ceil(size/float(self.ESP_RAM_BLOCK)), ...)
\* and size is bound nowhere (no local, no global of the module), so evaluating
\* the arguments raises NameError in the first pass: with a section in the
\* list nothing is sent.  With no section the loop is skipped and
\* mem_finish(entrypoint) writes its request.
WriteMemoryImage ==
    /\ pc = "write_memory_image"
    /\ IF Len(call.args.sections) > 0
       THEN /\ pc' = "done" /\ ret' = Failed("NameError")
            /\ UNCHANGED <<loc, wire, log>>
       ELSE /\ PortWrite(Request(ESP_MEM_END, MemFinishPayload(call.args.entrypoint), 0))
            /\ loc' = [op |-> ESP_MEM_END]
            /\ pc' = "mf_wait" /\ ret' = ret
    /\ UNCHANGED <<call, timeout, rx, heard, quiet, imageVars>>

MemFinishRecv ==
    /\ pc = "mf_read"
    /\ LET r == SimpleCommandRead(ESP_MEM_END, rx)
       IN  /\ Returns(r)
           /\ rx' = r.rest
           /\ ret' = IF r.err = "none" THEN Ok(r.val, <<>>) ELSE Failed(r.err)
    /\ pc' = "done"
    /\ UNCHANGED <<call, loc, timeout, wire, log, heard, quiet, imageVars>>

Next ==
    \/ Call
    \/ Device
    \/ CommandSend
    \/ CommandRecv
    \/ ConnectBegin
    \/ ConnectAttempt
    \/ SyncRecv
    \/ DrainRecv
    \/ FlashImageBegin
    \/ RunBegin
    \/ FlashBeginSend
    \/ FlashBeginRecv
    \/ FlashBlockSend
    \/ FlashBlockRecv
    \/ FlashFinishSend
    \/ FlashFinishRecv
    \/ MemBeginSend
    \/ MemBeginRecv
    \/ WriteMemoryImage
    \/ MemFinishRecv

Spec == Init /\ [][Next]_vars

(***************************************************************************)
(* Reading the wire: the requests the host has written, decoded.           *)
(***************************************************************************)
\* SLIP unescaping of the inside of a well-formed frame, by halves that do
\* not separate an escape byte from the byte it escapes.
RECURSIVE Unslip(_)
Unslip(e) ==
    IF Len(e) = 0 THEN <<>>
    ELSE IF Len(e) = 1 THEN e
    ELSE IF Len(e) = 2 THEN
        IF e[1] = SLIP_ESC
        THEN (IF e[2] = SLIP_ESC_END THEN <<SLIP_END>> ELSE <<SLIP_ESC>>)
        ELSE e
    ELSE LET h0 == Len(e) \div 2
             h == IF e[h0] = SLIP_ESC THEN h0 + 1 ELSE h0
         IN  Unslip(SubSeq(e, 1, h)) \o Unslip(SubSeq(e, h + 1, Len(e)))

Framed(f) == Len(f) >= 2 /\ f[1] = SLIP_END /\ f[Len(f)] = SLIP_END
Inside(f) == Unslip(SubSeq(f, 2, Len(f) - 1))
\* The first 24 bytes of the packet in frame f (all of it when it is
\* shorter): they are within the first 48 bytes after the delimiter.
PacketStart(f) == Unslip(SubSeq(f, 2, Min(Len(f) - 1, 49)))

\* A request's header fields ('<BBHI'), the k-th 32-bit field of its payload
\* and what follows the payload's first four fields.
ReqOp(f) == PacketStart(f)[2]
ReqLen(f) == UnpackH(SubSeq(PacketStart(f), 3, 4))
ReqChk(f) == UnpackI(SubSeq(PacketStart(f), 5, 8))
Field(f, k) == UnpackI(SubSeq(PacketStart(f), 8 + 4 * k - 3, 8 + 4 * k))
BlockData(f) == LET p == Inside(f) IN SubSeq(p, 25, Len(p))

CeilDiv(a, b) == (a + b - 1) \div b

(***************************************************************************)
(* Claims about connect().                                                 *)
(***************************************************************************)
AttemptEvents == <<"flushInput", "flushOutput", "write", "sleep">>

\* C1: when the device never delivers anything, connect() makes exactly 10
\* attempts, each one flushInput, flushOutput, one sync probe (opcode 0x08)
\* and, having failed, a sleep; there is never an 11th probe; and it ends in
\* the connection error, never in a normal return.
C1_ConnectGivesUp ==
    (call.name = "connect" /\ quiet) =>
        /\ Len(wire) <= 10
        /\ \A k \in 1..Len(wire) : Framed(wire[k]) /\ ReqOp(wire[k]) = ESP_SYNC
        /\ \A k \in 1..Len(log) : log[k] = AttemptEvents[((k - 1) % 4) + 1]
        /\ Len(wire) = Cardinality({k \in 1..Len(log) : log[k] = "write"})
        /\ pc = "done" =>
              /\ ret.err = "connect"
              /\ Len(wire) = 10
              /\ Len(log) = 40

C1_Witness ==
    /\ call.name = "connect" /\ quiet /\ pc = "done"
    /\ ret.err = "connect" /\ Len(wire) = 10

\* C2: when connect() returns normally after k-1 failed attempts it has sent
\* exactly k sync probes and slept k-1 times, the sync response and the 7 bare
\* reads of the last attempt were all accepted, the last thing sent is that
\* attempt's probe, and the timeout is 5 s; k is at most 10.
C2_ConnectSucceeds ==
    (call.name = "connect" /\ pc = "done" /\ ret.err = "none") =>
        /\ timeout = 5000
        /\ loc._i \in 0..9
        /\ Len(wire) = loc._i + 1
        /\ \A k \in 1..Len(wire) : ReqOp(wire[k]) = ESP_SYNC
        /\ Cardinality({k \in 1..Len(log) : log[k] = "sleep"}) = loc._i
        /\ log[Len(log)] = "write"
        /\ loc.n = 8

\* connect() returned on its third attempt.
C2_Witness ==
    /\ call.name = "connect" /\ pc = "done" /\ ret.err = "none"
    /\ loc._i = 2 /\ Len(wire) = 3

(***************************************************************************)
(* Claims about the flash and RAM programming sequences.                   *)
(***************************************************************************)
\* C3: while flash_begin's command is in flight the timeout is 10 s, and from
\* the moment flash_begin is left, normally or by an exception, it is the
\* timeout found at the call.
C3_FlashBeginTimeout ==
    call.name \in {"flash_begin", "flash_image"} =>
        /\ pc \in {"fb_wait", "fb_read"} => timeout = 10000 /\ loc.old_tmo = call.tmo
        /\ pc \in {"flash_block", "fblk_wait", "fblk_read", "done"} => timeout = call.tmo

\* flash_begin failed and the timeout, which was not 10 s, is back.
C3_Witness ==
    /\ call.name = "flash_begin" /\ pc = "done" /\ ret.err = "response"
    /\ call.tmo = 1000 /\ timeout = 1000

\* The number of bytes the flash-block requests wire[2..j-1] say they carry.
RECURSIVE SentBefore(_)
SentBefore(j) == IF j <= 2 THEN 0 ELSE SentBefore(j - 1) + Field(wire[j - 1], 1)

\* C4: flash_image(offx, img) sends one flash-begin carrying len(img) and
\* offx and sends the first flash-block only once that is acknowledged; the
\* blocks are numbered 0, 1, 2, ... in the order sent and carry at most 0x400
\* bytes each; a block just written carries the bytes of img that follow
\* those of the blocks before it, and the checksum of its own bytes; when
\* every command was accepted, ceil(len(img)/0x400) blocks have been sent and
\* they carry len(img) bytes, so that together they are img.
C4_WriteFlash ==
    call.name = "flash_image" =>
        /\ pc \in {"fb_wait", "fb_read"} => Len(wire) = 1
        /\ Len(wire) >= 1 =>
              /\ Framed(wire[1])
              /\ ReqOp(wire[1]) = 2
              /\ ReqLen(wire[1]) = 16
              /\ Field(wire[1], 1) = Len(call.args.img)
              /\ Field(wire[1], 4) = call.args.offx
        /\ \A j \in 2..Len(wire) :
              /\ Framed(wire[j])
              /\ ReqOp(wire[j]) = 3
              /\ Field(wire[j], 2) = j - 2
              /\ Field(wire[j], 1) \in 1..1024
              /\ ReqLen(wire[j]) = 16 + Field(wire[j], 1)
        /\ pc = "fblk_wait" =>
              LET f == wire[Len(wire)]
                  d == BlockData(f)
                  before == SentBefore(Len(wire))
              IN  /\ Len(d) = Field(f, 1)
                  /\ before + Len(d) <= Len(call.args.img)
                  /\ d = SubSeq(call.args.img, before + 1, before + Len(d))
                  /\ ReqChk(f) = checksum(d, 239)
        /\ (pc = "done" /\ ret.err = "none") =>
              /\ Len(wire) = 1 + CeilDiv(Len(call.args.img), 1024)
              /\ SentBefore(Len(wire) + 1) = Len(call.args.img)

\* An image of two full blocks and one byte went out in three blocks.
C4_Witness ==
    /\ call.name = "flash_image" /\ pc = "done" /\ ret.err = "none"
    /\ Len(call.args.img) = 2049 /\ Len(wire) = 4
    /\ Field(wire[4], 2) = 2 /\ Field(wire[4], 1) = 1

DeviceErrors == {"timeout", "head", "escape", "response", "tail", "body"}

\* The number of requests download_to_ram is to send for a list of sections.
RECURSIVE RamRequests(_)
RamRequests(sections) ==
    IF sections = <<>> THEN 1
    ELSE 1 + CeilDiv(Len(sections[1][2]), 6144) + RamRequests(Tail(sections))

\* C5: write_memory_image(sections, entrypoint), no command of which the
\* device refused, has sent for each section one download-begin (0x05) with
\* the section's size, block count and address, then its data as RAM blocks
\* (0x07), and last one download-finish (0x06) with the entrypoint and
\* run_flag 1 exactly when the entrypoint is 0.
C5_DownloadToRam ==
    (call.name = "write_memory_image" /\ pc = "done" /\ ret.err \notin DeviceErrors) =>
        /\ ret.err = "none"
        /\ Len(wire) = RamRequests(call.args.sections)
        /\ Len(call.args.sections) > 0 =>
              /\ ReqOp(wire[1]) = 5
              /\ Field(wire[1], 1) = Len(call.args.sections[1][2])
              /\ Field(wire[1], 2) = CeilDiv(Len(call.args.sections[1][2]), 6144)
              /\ Field(wire[1], 4) = call.args.sections[1][1]
        /\ ReqOp(wire[Len(wire)]) = 6
        /\ Field(wire[Len(wire)], 1) = (IF call.args.entrypoint = 0 THEN 1 ELSE 0)
        /\ Field(wire[Len(wire)], 2) = call.args.entrypoint

\* C6 as claimed: every begin request on the wire, RAM (0x05) or flash
\* (0x02), declares block size 0x400.
C6_BeginBlockSizeAlways400 ==
    \A k \in 1..Len(wire) :
        ReqOp(wire[k]) \in {2, 5} => Field(wire[k], 3) = 1024

\* C6 amended: every flash-begin request declares block size 0x400; a RAM
\* download begin declares the block size mem_begin was called with.
C6_BeginBlockSize ==
    \A k \in 1..Len(wire) :
        /\ ReqOp(wire[k]) = 2 => Field(wire[k], 3) = 1024
        /\ ReqOp(wire[k]) = 5 => Field(wire[k], 3) = call.args.blocksize

\* A RAM download begin declaring the RAM block size 0x1800 is on the wire.
C6_Witness ==
    /\ call.name = "mem_begin" /\ call.args.blocksize = 6144
    /\ Len(wire) = 1 /\ ReqOp(wire[1]) = 5
    /\ Field(wire[1], 3) = 6144

(***************************************************************************)
(* Claims about command().                                                 *)
(***************************************************************************)
\* The device delivered one well-formed response frame.
WellFormed(f) ==
    /\ Framed(f)
    /\ Len(Inside(f)) >= 8
    /\ Len(Inside(f)) = 8 + UnpackH(SubSeq(Inside(f), 3, 4))

\* C7: command() fails when the response's status is not 0x01, and when an
\* opcode was supplied and the echoed opcode differs; a bare read does not
\* look at the echo; in every other case of a well-formed response it returns
\* the header's value and the len bytes of the body.
C7_CommandValidation ==
    (call.name = "command" /\ pc = "done" /\ WellFormed(heard)) =>
        LET h == Inside(heard)
            op == call.args.op
            rejected == h[1] # 1 \/ (op # None /\ h[2] # op)
        IN  /\ rejected => ret.err = "response"
            /\ ~rejected =>
                  /\ ret.err = "none"
                  /\ ret.val = UnpackI(SubSeq(h, 5, 8))
                  /\ ret.body = SubSeq(h, 9, Len(h))
                  /\ Len(ret.body) = UnpackH(SubSeq(h, 3, 4))

\* C17: flash_finish(reboot) sends one flash-finish command (opcode 0x04)
\* whose flag is 1 exactly when reboot is false, and returns normally exactly
\* when the response passes command()'s validation and its body is two zero
\* bytes or 0x01 0x06; any other body makes it fail.
C17_FinishFlash ==
    call.name = "flash_finish" =>
        /\ pc # "flash_finish" =>
              /\ Len(wire) = 1
              /\ Framed(wire[1])
              /\ Len(Inside(wire[1])) = 12
              /\ ReqOp(wire[1]) = ESP_FLASH_END
              /\ ReqLen(wire[1]) = 4
              /\ Field(wire[1], 1) = 1 <=> ~call.args.reboot
              /\ Field(wire[1], 1) \in {0, 1}
        /\ pc = "done" =>
              (ret.err = "none" <=>
                  /\ WellFormed(heard)
                  /\ Inside(heard)[1] = 1
                  /\ Inside(heard)[2] = ESP_FLASH_END
                  /\ SubSeq(Inside(heard), 9, Len(Inside(heard)))
                         \in {<<0, 0>>, <<1, 6>>})

\* flash_finish() taking the body 0x01 0x06, after a request with flag 1.
C17_Witness ==
    /\ call.name = "flash_finish" /\ pc = "done" /\ ret.err = "none"
    /\ ~call.args.reboot
    /\ Field(wire[1], 1) = 1
    /\ heard = DeviceFrame(1, ESP_FLASH_END, 0, <<1, 6>>)

\* The response f is one the command with opcode op takes: a well-formed
\* frame of status 1 that echoes op, with a body the command accepts.
Acceptable(op, f) ==
    /\ WellFormed(f)
    /\ Inside(f)[1] = 1
    /\ Inside(f)[2] = op
    /\ SubSeq(Inside(f), 9, Len(Inside(f)))
           \in (IF op = ESP_FLASH_END THEN {<<0, 0>>, <<1, 6>>} ELSE {<<0, 0>>})

\* C18: outside connect() nothing is retried or continued after a failure:
\* when the response to a command of flash_image, write_memory_image or run
\* is not one the command takes, the next step of the operation is to fail,
\* and it writes no further request; a finished operation writes nothing.
C18_NoRetry ==
    [][ /\ (/\ call.name \in {"flash_image", "write_memory_image", "run"}
            /\ pc \in {"fb_read", "fblk_read", "mf_read", "ff_read"}
            /\ rx = heard
            /\ ~Acceptable(loc.op, heard))
           => (pc' = "done" /\ ret'.err \in DeviceErrors /\ wire' = wire)
        /\ pc = "done" => wire' = wire ]_vars

\* run() whose zero-length flash-begin was refused: flash-finish was not sent.
C18_Witness ==
    /\ call.name = "run" /\ pc = "done" /\ ret.err = "response"
    /\ Len(wire) = 1
    /\ ReqOp(wire[1]) = ESP_FLASH_BEGIN
    /\ heard = DeviceFrame(0, ESP_FLASH_BEGIN, 0, <<0, 0>>)

\* The first frame of f: up to the first delimiter after the leading one.
FrameEnd(f) == CHOOSE i \in 2..Len(f) :
                  f[i] = SLIP_END /\ \A j \in 2..(i - 1) : f[j] # SLIP_END
FirstFrame(f) == SubSeq(f, 1, FrameEnd(f))
StartsWithFrame(f) ==
    /\ Len(f) >= 2
    /\ f[1] = SLIP_END
    /\ \E i \in 2..Len(f) : f[i] = SLIP_END
    /\ WellFormed(FirstFrame(f))

\* The bytes the leading delimiter and the eight header bytes of frame f
\* take on the transport (a header byte 0xC0 or 0xDB takes two).
HeaderSpan(f) ==
    1 + 8 + Cardinality({i \in 1..8 : Inside(f)[i] \in {SLIP_END, SLIP_ESC}})

\* C20: a command() that returns normally has consumed exactly one complete
\* response frame, so that what is left starts at a frame boundary; one that
\* fails the status or opcode-echo check has consumed only the leading
\* delimiter and the header, and the body and the trailing delimiter of that
\* response are still in the transport.
C20_FrameBoundary ==
    (call.name = "command" /\ pc = "done" /\ StartsWithFrame(heard)) =>
        LET f == FirstFrame(heard)
        IN  /\ ret.err \in {"none", "response"}
            /\ ret.err = "none" =>
                  /\ rx = SubSeq(heard, Len(f) + 1, Len(heard))
                  /\ rx # <<>> => rx[1] = SLIP_END
            /\ ret.err = "response" =>
                  /\ rx = SubSeq(heard, HeaderSpan(f) + 1, Len(heard))
                  /\ SubSeq(rx, 1, Len(f) - HeaderSpan(f))
                         = SubSeq(f, HeaderSpan(f) + 1, Len(f))
                  /\ Len(rx) >= UnpackH(SubSeq(Inside(f), 3, 4)) + 1

\* A refused response: its two body bytes and its trailing delimiter are left.
C20_Witness ==
    /\ call.name = "command" /\ pc = "done" /\ ret.err = "response"
    /\ heard = DeviceFrame(0, ESP_READ_REG, 0, <<0, 0>>)
    /\ rx = <<0, 0, SLIP_END>>

\* An accepted response followed by another: the second is left whole.
SecondFrameLeftWhole ==
    /\ call.name = "command" /\ pc = "done" /\ ret.err = "none"
    /\ rx = DeviceFrame(1, ESP_READ_REG, 9, <<0, 0>>)

(***************************************************************************)
(* The image builder: class Image.                                         *)
(***************************************************************************)
MaxSections == 3

\* A section is the tuple (addr, data).  One address lies below every flash
\* base, the others at and above the default one.
SectionAddrs == {ESP_FLASH_BASE - 48, ESP_FLASH_BASE, ESP_FLASH_BASE + 1, ESP_FLASH_BASE + 3}
SectionDatas == {<<>>, <<17>>, <<34, 51>>, <<68, 255, 85>>}
\* The data of the sections below the flash base: lengths 0, 1, 4 and 5.
LoadedDatas == {<<>>, <<17>>, <<1, 2, 3, 4>>, <<SLIP_END, 0, 0, 0, 9>>}
DatasAt(addr) == IF addr < ESP_FLASH_BASE - 32 THEN LoadedDatas ELSE SectionDatas
\* Image(flash_base=...): the default, and one 32 bytes lower.
FlashBases == {ESP_FLASH_BASE, ESP_FLASH_BASE - 32}

\* Python's < on bytes: lexicographic, a proper prefix is smaller.
BytesLess(a, b) ==
    \E i \in 1..(Len(b)) :
        /\ i <= Len(a) + 1
        /\ \A j \in 1..(i - 1) : a[j] = b[j]
        /\ (i = Len(a) + 1 \/ a[i] < b[i])

\* Python's < on the tuples (addr, data).
SectionLess(x, y) == x[1] < y[1] \/ (x[1] = y[1] /\ BytesLess(x[2], y[2]))

\* Insertion of x into a sorted list, after the elements not greater than it.
RECURSIVE Insert(_, _)
Insert(x, sorted) ==
    IF sorted = <<>> THEN <<x>>
    ELSE IF SectionLess(x, sorted[1]) THEN <<x>> \o sorted
    ELSE <<sorted[1]>> \o Insert(x, Tail(sorted))

\* The mutant: the list is left in insertion order.
NotSorted(list) == list

\* self.static_sections.sort()
RECURSIVE Sorted(_)
Sorted(list) ==
    IF list = <<>> THEN <<>>
    ELSE Insert(list[Len(list)], Sorted(SubSeq(list, 1, Len(list) - 1)))

\* b'\xff'*n: empty when n is not positive.
Filler(n) == [i \in 1..(IF n > 0 THEN n ELSE 0) |-> 255]

\* The loop of static_image(): for addr, data in self.static_sections:
\*     b += b'\xff'*(addr-base-len(b)); b += data
RECURSIVE Emit(_, _, _)
Emit(sections, base, b) ==
    IF sections = <<>> THEN b
    ELSE Emit(Tail(sections), base,
              b \o Filler(sections[1][1] - base - Len(b)) \o sections[1][2])

InitImage ==
    /\ pc = "image"
    /\ call = [name |-> "none"]
    /\ loc = [op |-> None]
    /\ ret = NoRet
    /\ timeout = None
    /\ rx = <<>>
    /\ wire = <<>>
    /\ log = <<>>
    /\ heard = <<>>
    /\ quiet = TRUE
    /\ loaded_sections = <<>>
    /\ static_sections = <<>>
    /\ entrypoint = 1074790408
    /\ flash_base \in FlashBases

\* The mutant: a section at the flash base itself counts as loaded.
IsLoadedInclusive(addr, base) == addr <= base

\* if addr < self.flash_base:
IsLoaded(addr, base) == addr < base

\* add_section(addr, data); log keeps the sections in the order of the calls.
AddSection ==
    /\ pc = "image"
    /\ Len(loaded_sections) + Len(static_sections) < MaxSections
    /\ \E addr \in SectionAddrs : \E data \in DatasAt(addr) :
        /\ IF IsLoaded(addr, flash_base)
           THEN /\ loaded_sections' = Append(loaded_sections, <<addr, data>>)
                /\ UNCHANGED static_sections
           ELSE /\ static_sections' = Append(static_sections, <<addr, data>>)
                /\ UNCHANGED loaded_sections
        /\ log' = Append(log, <<addr, data>>)
    /\ UNCHANGED <<pc, call, loc, ret, timeout, rx, wire, heard, quiet,
                   entrypoint, flash_base>>

\* static_image(): call remembers the Image as it was when it was called.
StaticImage ==
    /\ pc = "image"
    /\ call' = [name |-> "static_image", loaded |-> loaded_sections,
                static |-> static_sections, entrypoint |-> entrypoint,
                flash_base |-> flash_base]
    /\ static_sections' = Sorted(static_sections)
    /\ IF static_sections = <<>>
       THEN ret' = Failed("IndexError")
       ELSE LET base == static_sections'[1][1]
            IN  ret' = Ok(base - flash_base, Emit(static_sections', base, <<>>))
    /\ pc' = "done"
    /\ UNCHANGED <<loc, portVars, loaded_sections, entrypoint, flash_base>>

\* b'\0'*n
Zeros(n) == [i \in 1..(IF n > 0 THEN n ELSE 0) |-> 0]

\* data + b'\0'*(3-(len(data)-1)%4); Python's % of -1 by 4 is 3.
Padded(data) == data \o Zeros(3 - ((Len(data) + 3) % 4))

\* The loop of loader_image(): b += sechdr(addr, len(data)) + data
RECURSIVE LoaderSections(_, _)
LoaderSections(sections, b) ==
    IF sections = <<>> THEN b
    ELSE LET data == Padded(sections[1][2])
         IN  LoaderSections(Tail(sections),
                 b \o PackI(sections[1][1]) \o PackI(Len(data)) \o data)

\* b''.join(data for _1,data in self.loaded_sections)
RECURSIVE Joined(_)
Joined(sections) ==
    IF sections = <<>> THEN <<>>
    ELSE sections[1][2] \o Joined(Tail(sections))

\* loader_image(): the exception or the image.
loader_image(sections, entry) ==
    LET b == LoaderSections(sections,
                 PackB(ESP_IMAGE_MAGIC) \o PackB(Len(sections)) \o PackB(0)
                     \o PackB(0) \o PackI(entry))
        payload == Joined(sections)
        pad == 15 - (Len(b) % 16)
    IN  IF ChecksumRaises(payload) THEN [err |-> "TypeError", data |-> <<>>]
        ELSE [err |-> "none",
              data |-> b \o Zeros(pad) \o <<checksum(payload, ESP_CHECKSUM_MAGIC)>>]

LoaderImage ==
    /\ pc = "image"
    /\ call' = [name |-> "loader_image", loaded |-> loaded_sections,
                static |-> static_sections, entrypoint |-> entrypoint,
                flash_base |-> flash_base]
    /\ LET r == loader_image(loaded_sections, entrypoint)
       IN  ret' = IF r.err # "none" THEN Failed(r.err) ELSE Ok(0, r.data)
    /\ pc' = "done"
    /\ UNCHANGED <<loc, portVars, imageVars>>

\* combined_image(): loader_image(), then static_image() with its sort, then
\* limg + b'\xff'*(sbase-len(limg)) + simg.
CombinedImage ==
    /\ pc = "image"
    /\ call' = [name |-> "combined_image", loaded |-> loaded_sections,
                static |-> static_sections, entrypoint |-> entrypoint,
                flash_base |-> flash_base]
    /\ LET limg == loader_image(loaded_sections, entrypoint)
       IN  IF limg.err # "none"
           THEN /\ ret' = Failed(limg.err)
                /\ UNCHANGED static_sections
           ELSE /\ static_sections' = Sorted(static_sections)
                /\ IF static_sections = <<>>
                   THEN ret' = Failed("IndexError")
                   ELSE LET base == static_sections'[1][1]
                            sbase == base - flash_base
                            simg == Emit(static_sections', base, <<>>)
                        IN  ret' = Ok(0, limg.data
                                          \o Filler(sbase - Len(limg.data))
                                          \o simg)
    /\ pc' = "done"
    /\ UNCHANGED <<loc, portVars, loaded_sections, entrypoint, flash_base>>

NextImage == AddSection \/ StaticImage \/ LoaderImage \/ CombinedImage

SpecImage == InitImage /\ [][NextImage]_vars

\* --- claims about flash_image() (static_image in the source) --------------
SecEnd(x) == x[1] + Len(x[2])
\* No byte address belongs to two sections of the list.
Disjoint(list) ==
    \A i, j \in 1..Len(list) :
        i < j => (SecEnd(list[i]) <= list[j][1] \/ SecEnd(list[j]) <= list[i][1]
                  \/ Len(list[i][2]) = 0 \/ Len(list[j][2]) = 0)
Lowest(list) == CHOOSE a \in {list[i][1] : i \in 1..Len(list)} :
                    \A i \in 1..Len(list) : a <= list[i][1]
Highest(list) == CHOOSE e \in {SecEnd(list[i]) : i \in 1..Len(list)} :
                    \A i \in 1..Len(list) : SecEnd(list[i]) <= e

\* C9: for static sections no two of which overlap, added in any order,
\* static_image() returns the offset lowest address - flash_base and an image
\* of highest end - lowest address bytes that holds each section's bytes at
\* its address - lowest address and 0xFF wherever no section lies.
C9_FlashImageLayout ==
    (pc = "done" /\ call.name = "static_image" /\ call.static # <<>>
        /\ Disjoint(call.static)) =>
        LET lo == Lowest(call.static)
            img == ret.body
        IN  /\ ret.err = "none"
            /\ ret.val = lo - flash_base
            /\ Len(img) = Highest(call.static) - lo
            /\ \A k \in 1..Len(call.static) :
                  LET x == call.static[k]
                  IN  SubSeq(img, x[1] - lo + 1, x[1] - lo + Len(x[2])) = x[2]
            /\ \A p \in 1..Len(img) :
                  (\A k \in 1..Len(call.static) :
                      ~(call.static[k][1] - lo < p /\ p <= SecEnd(call.static[k]) - lo))
                  => img[p] = 255

\* Two sections added highest first, with a gap of two bytes between them.
C9_Witness ==
    /\ pc = "done" /\ call.name = "static_image"
    /\ call.static = <<<<ESP_FLASH_BASE + 3, <<34, 51>>>>, <<ESP_FLASH_BASE, <<17>>>>>>
    /\ ret = Ok(0, <<17, 255, 255, 34, 51>>)

\* C10: static_image() of overlapping static sections fails; it returns no
\* image.
C10_OverlapRejected ==
    (pc = "done" /\ call.name = "static_image" /\ call.static # <<>>
        /\ ~Disjoint(call.static)) => ret.err # "none"

\* --- claims about combined_image() ---------------------------------------
\* C11: combined_image() fails whenever the flash image's offset from the
\* flash base is smaller than the length of the RAM image; whenever it
\* returns, the result is the RAM image, 0xFF filler up to that offset, and
\* from the index equal to the offset on the bytes of the flash image.
C11_CombinedImageLayout ==
    (pc = "done" /\ call.name = "combined_image" /\ call.static # <<>>
        /\ loader_image(call.loaded, call.entrypoint).err = "none") =>
        LET limg == loader_image(call.loaded, call.entrypoint).data
            lo == Lowest(call.static)
            sbase == lo - call.flash_base
            simg == Emit(Sorted(call.static), lo, <<>>)
        IN  /\ sbase < Len(limg) => ret.err # "none"
            /\ ret.err = "none" =>
                  /\ Len(ret.body) = sbase + Len(simg)
                  /\ SubSeq(ret.body, 1, Len(limg)) = limg
                  /\ \A p \in (Len(limg) + 1)..sbase : ret.body[p] = 255
                  /\ SubSeq(ret.body, sbase + 1, Len(ret.body)) = simg

\* What combined_image() does return when the two images do not overlap.
CombinedImageApart ==
    (pc = "done" /\ call.name = "combined_image" /\ call.static # <<>>
        /\ loader_image(call.loaded, call.entrypoint).err = "none"
        /\ Lowest(call.static) - call.flash_base
               >= Len(loader_image(call.loaded, call.entrypoint).data)) =>
        LET limg == loader_image(call.loaded, call.entrypoint).data
            lo == Lowest(call.static)
            sbase == lo - call.flash_base
            simg == Emit(Sorted(call.static), lo, <<>>)
        IN  /\ ret.err = "none"
            /\ Len(ret.body) = sbase + Len(simg)
            /\ SubSeq(ret.body, 1, Len(limg)) = limg
            /\ \A p \in (Len(limg) + 1)..sbase : ret.body[p] = 255
            /\ SubSeq(ret.body, sbase + 1, Len(ret.body)) = simg

\* --- claims about loader_image() (ram_image in the specification) ---------
\* The seed XORed with every byte of data, the seed itself for no byte.
RECURSIVE XorAll(_, _)
XorAll(seed, data) ==
    IF data = <<>> THEN seed ELSE XorAll(Xor(seed, data[1]), Tail(data))

\* The smallest multiple of 4 not less than n.
PaddedLen(n) == 4 * CeilDiv(n, 4)

\* Where the header of section k starts in the image, counted from 0.
RECURSIVE SectionStart(_, _)
SectionStart(sections, k) ==
    IF k = 1 THEN 8
    ELSE SectionStart(sections, k - 1) + 8 + PaddedLen(Len(sections[k - 1][2]))

RamImageLengthOk == Len(ret.body) % 16 = 0

RamImageSectionsOk ==
    LET img == ret.body
        secs == call.loaded
    IN  /\ \A k \in 1..Len(secs) :
              LET at == SectionStart(secs, k)
                  n == Len(secs[k][2])
              IN  /\ SubSeq(img, at + 1, at + 4) = PackI(secs[k][1])
                  /\ SubSeq(img, at + 5, at + 8) = PackI(PaddedLen(n))
                  /\ SubSeq(img, at + 9, at + 8 + n) = secs[k][2]
                  /\ \A p \in (at + 8 + n + 1)..(at + 8 + PaddedLen(n)) :
                        img[p] = 0
        /\ Len(img) >= SectionStart(secs, Len(secs) + 1) + 1
        /\ img[Len(img)] = XorAll(ESP_CHECKSUM_MAGIC, Joined(secs))

\* C12: for every Image, whatever the number and the lengths of its loaded
\* sections, loader_image() returns a byte string whose length is a multiple
\* of 16.
C12_RamImageLength ==
    (pc = "done" /\ call.name = "loader_image") =>
        (ret.err = "none" /\ RamImageLengthOk)

\* C13: loader_image() emits every loaded section in list order with the
\* declared length the smallest multiple of 4 not less than the section's
\* length, the section's bytes and zero bytes up to that length; the last
\* byte of the image is 0xEF XORed with every byte of the unpadded payloads.
C13_RamImageSections ==
    (pc = "done" /\ call.name = "loader_image") =>
        (ret.err = "none" /\ RamImageSectionsOk)

\* What loader_image() does satisfy: both properties whenever it returns.
RamImageWhenReturned ==
    (pc = "done" /\ call.name = "loader_image" /\ ret.err = "none") =>
        (RamImageLengthOk /\ RamImageSectionsOk)

\* --- claims about add_section() ------------------------------------------
\* The sections of the add_section calls so far that satisfy loaded or not.
AddedWhere(loaded) ==
    LET Test(x) == (x[1] < flash_base) = loaded
    IN  SelectSeq(log, Test)

\* C15: after any sequence of add_section calls every added section is in
\* exactly one list, loaded_sections exactly when its address is below
\* flash_base, and each list holds its sections in the order of the calls.
C15_AddSection ==
    pc = "image" =>
        /\ loaded_sections = AddedWhere(TRUE)
        /\ static_sections = AddedWhere(FALSE)
        /\ Len(loaded_sections) + Len(static_sections) = Len(log)

\* Three calls: below the base, above it, and at the base itself.
C15_Witness ==
    /\ pc = "image"
    /\ flash_base = ESP_FLASH_BASE
    /\ log = << <<ESP_FLASH_BASE - 48, <<17>>>>,
                <<ESP_FLASH_BASE + 3, <<34, 51>>>>,
                <<ESP_FLASH_BASE, <<17>>>> >>
    /\ loaded_sections = << <<ESP_FLASH_BASE - 48, <<17>>>> >>
    /\ static_sections = << <<ESP_FLASH_BASE + 3, <<34, 51>>>>,
                            <<ESP_FLASH_BASE, <<17>>>> >>

\* C16: loader_image(), static_image() and combined_image() are read-only on
\* the Image: after any of them returns, both lists hold the same sections in
\* the same order as before the call, and entrypoint and flash_base are
\* unchanged.
C16_SerializersReadOnly ==
    (pc = "done" /\ ret.err = "none"
        /\ call.name \in {"loader_image", "static_image", "combined_image"}) =>
        /\ loaded_sections = call.loaded
        /\ static_sections = call.static
        /\ entrypoint = call.entrypoint
        /\ flash_base = call.flash_base

\* What the three operations do keep: the sections of each list, counted.
RECURSIVE Count(_, _)
Count(list, x) ==
    IF list = <<>> THEN 0
    ELSE (IF list[1] = x THEN 1 ELSE 0) + Count(Tail(list), x)
SerializersKeepSections ==
    (pc = "done"
        /\ call.name \in {"loader_image", "static_image", "combined_image"}) =>
        /\ loaded_sections = call.loaded
        /\ \A i \in 1..Len(call.static) :
              Count(static_sections, call.static[i])
                  = Count(call.static, call.static[i])
        /\ Len(static_sections) = Len(call.static)
        /\ entrypoint = call.entrypoint
        /\ flash_base = call.flash_base

(***************************************************************************)
(* ESPROM.checksum called on its own.                                      *)
(***************************************************************************)
Seeds == {ESP_CHECKSUM_MAGIC, 0, 255}

InitChecksum ==
    /\ pc = "checksum"
    /\ call \in {[name |-> "checksum", data |-> d, state |-> s] :
                    d \in SeqsUpTo(FrameBytes, MaxFrameLen), s \in Seeds}
    /\ loc = [op |-> None]
    /\ ret = NoRet
    /\ timeout = None
    /\ rx = <<>>
    /\ wire = <<>>
    /\ log = <<>>
    /\ heard = <<>>
    /\ quiet = TRUE
    /\ loaded_sections = <<>>
    /\ static_sections = <<>>
    /\ entrypoint = 0
    /\ flash_base = ESP_FLASH_BASE

Checksum ==
    /\ pc = "checksum"
    /\ ret' = IF ChecksumRaises(call.data) THEN Failed("TypeError")
              ELSE Ok(checksum(call.data, call.state), <<>>)
    /\ pc' = "done"
    /\ UNCHANGED <<call, loc, portVars, imageVars>>

NextChecksum == Checksum

SpecChecksum == InitChecksum /\ [][NextChecksum]_vars

\* C14: checksum(data, seed) returns the seed unchanged when data is empty,
\* for every seed; for a non-empty data it returns the seed XORed with every
\* byte of data.
C14_Checksum ==
    (pc = "done" /\ call.name = "checksum") =>
        ret = Ok(XorAll(call.state, call.data), <<>>)

\* What checksum() does satisfy: the second half of the claim.
ChecksumOfNonEmpty ==
    (pc = "done" /\ call.name = "checksum" /\ call.data # <<>>) =>
        ret = Ok(XorAll(call.state, call.data), <<>>)

(***************************************************************************)
(* A session: operations of one ESPROM object one after the other, the     *)
(* first of them connect().  The port keeps its timeout and its unread     *)
(* input from one operation to the next; the caller may go on after an     *)
(* operation that raised.                                                  *)
(***************************************************************************)
SessionCalls ==
    {c \in Calls :
        \/ c.name \in {"connect", "flash_begin", "flash_finish", "run"}
        \/ (c.name = "flash_image" /\ Len(c.img) <= 1)
        \/ (c.name = "command" /\ c.op = ESP_READ_REG)}

\* link: how the latest connect() ended; ops: the operations called so far.
InitSession ==
    /\ pc = "idle"
    /\ call = [name |-> "none", link |-> "never", ops |-> 0]
    /\ loc = [op |-> None]
    /\ ret = NoRet
    /\ timeout \in Timeouts
    /\ rx = <<>>
    /\ wire = <<>>
    /\ log = <<>>
    /\ heard = <<>>
    /\ quiet = TRUE
    /\ loaded_sections = <<>>
    /\ static_sections = <<>>
    /\ entrypoint = 0
    /\ flash_base = ESP_FLASH_BASE

SessionCall ==
    /\ pc = "idle"
    /\ call.ops < MaxOps
    /\ \E c \in SessionCalls :
        /\ call.link = "never" => c.name = "connect"
        /\ call' = [name |-> c.name, args |-> c, tmo |-> timeout,
                    link |-> call.link, ops |-> call.ops + 1]
        /\ pc' = c.name
    /\ UNCHANGED <<loc, ret, portVars, imageVars>>

\* The operation is over, by return or by exception, and the caller is back
\* in control; the records of what the operation wrote and heard start anew.
SessionReturn ==
    /\ pc = "done"
    /\ pc' = "idle"
    /\ call' = [name |-> "none",
                link |-> IF call.name # "connect" THEN call.link
                         ELSE IF ret.err = "none" THEN "ok" ELSE "failed",
                ops |-> call.ops]
    /\ loc' = [op |-> None]
    /\ ret' = NoRet
    /\ wire' = <<>>
    /\ log' = <<>>
    /\ heard' = <<>>
    /\ quiet' = TRUE
    /\ UNCHANGED <<timeout, rx, imageVars>>

NextSession ==
    \/ SessionCall
    \/ SessionReturn
    \/ Device
    \/ CommandSend
    \/ CommandRecv
    \/ ConnectBegin
    \/ ConnectAttempt
    \/ SyncRecv
    \/ DrainRecv
    \/ FlashImageBegin
    \/ RunBegin
    \/ FlashBeginSend
    \/ FlashBeginRecv
    \/ FlashBlockSend
    \/ FlashBlockRecv
    \/ FlashFinishSend
    \/ FlashFinishRecv

SpecSession == InitSession /\ [][NextSession]_vars

\* connect() has begun at least once.
SessionStarted ==
    call.link # "never" \/ (call.name = "connect" /\ pc # "connect")

\* C19: in a sequence of operations that starts with connect(), the timeout
\* is 0.5 s throughout the handshake attempts, 5 s whenever control is
\* outside a flash-begin call after a successful connect, and 10 s only
\* while a flash-begin command is in flight; after a connect() that has
\* exhausted its attempts it is left at 0.5 s.
C19_TimeoutState ==
    SessionStarted =>
        /\ (call.name = "connect" /\ pc \notin {"connect", "done"})
               => timeout = 500
        /\ (call.name = "connect" /\ pc = "done")
               => timeout = (IF ret.err = "none" THEN 5000 ELSE 500)
        /\ (call.name # "connect" /\ pc \in {"fb_wait", "fb_read"})
               => timeout = 10000
        /\ (call.name # "connect" /\ pc \notin {"fb_wait", "fb_read"})
               => timeout = (IF call.link = "ok" THEN 5000 ELSE 500)
        /\ timeout = 10000 => pc \in {"fb_wait", "fb_read"}

\* After a successful connect() and one more operation, a flash_image() that
\* was refused at its flash-begin: the timeout is back at 5 s.
C19_Witness ==
    /\ call.link = "ok" /\ call.ops = 3
    /\ call.name = "flash_image" /\ pc = "done" /\ ret.err = "response"
    /\ timeout = 5000

\* A failed connect() and then a flash_begin(): 0.5 s again after it.
TimeoutAfterFailedConnect ==
    /\ call.link = "failed"
    /\ call.name = "flash_begin" /\ pc = "done"
    /\ timeout = 500

====
